---- MODULE Spec2Model ----
(***************************************************************************)
(* Authentication and authorization core of the food-market backend:       *)
(* register / login / me / update handlers (app/api/v1/auth.py), the       *)
(* identity resolver and role guard (app/auth/dependencies.py), over the   *)
(* "users" collection.  Every await on the collection is a separate step,  *)
(* so concurrent requests interleave at exactly those points.              *)
(***************************************************************************)
EXTENDS Integers, Sequences, FiniteSets, TLC

\* ------------------------------------------------------------------ bounds
MaxUsers == 2        \* ObjectIds handed out by register
MaxTicks == 2        \* clock advances
MaxTokens == 1       \* distinct tokens handed out by login
NumProcs == 2        \* requests in flight at the same time

\* ------------------------------------------------------- program constants
access_token_expire_minutes == 30
MinPasswordLen == 8
MaxNameLen == 100

Procs == 1 .. NumProcs
Roles == {"customer", "market_admin", "super_admin"}
Locales == {"en", "ua"}
None == "None"

\* clock steps, in minutes: one minute, and a whole token lifetime
TickSteps == {1, access_token_expire_minutes}

\* request bodies of POST /auth/register
RegisterRequests ==
  { [email |-> "a@x.io", name |-> "Ann", password |-> "eight888",
     role |-> "customer", locale |-> "en"],
    [email |-> "a@x.io", name |-> "Amy", password |-> "eight888",
     role |-> "market_admin", locale |-> "ua"],
    [email |-> "b@x.io", name |-> "Bob", password |-> "nine99999",
     role |-> "super_admin", locale |-> "en"],
    [email |-> "b@x.io", name |-> "Bob", password |-> "seven77",
     role |-> "customer", locale |-> "en"],
    [email |-> "a@x.io", name |-> "Abe", password |-> "short",
     role |-> "customer", locale |-> "en"] }

\* form fields of POST /auth/login
LoginEmails == {"a@x.io", "b@x.io", "nobody@x.io"}
LoginPasswords == {"eight888", "seven77"}

\* request bodies of PUT /auth/me
Patches == [name : {None, "Zed"}, locale : {None, "ua"}]

\* bcrypt salts
Salts == {1, 2}

VARIABLES users, nextId, now, ticks, issued, pc, loc, resp, trace

vars == <<users, nextId, now, ticks, issued, pc, loc, resp, trace>>

\* --------------------------------------------------------------- documents
NoDoc ==
  [_id |-> 0, email |-> "", name |-> "", role |-> "", locale |-> "",
   hashed_password |-> <<>>, created_at |-> 0, updated_at |-> 0]

NoLoc == [doc |-> NoDoc, uid |-> 0, update_data |-> [none |-> TRUE]]

\* the collection is kept in insertion order; find_one returns the first match
find_one_by_email(coll, email) ==
  LET m == SelectSeq(coll, LAMBDA d : d.email = email)
  IN  IF m = <<>> THEN NoDoc ELSE Head(m)

find_one_by_id(coll, id) ==
  LET m == SelectSeq(coll, LAMBDA d : d._id = id)
  IN  IF m = <<>> THEN NoDoc ELSE Head(m)

\* a write that replaces the document instead of setting fields in it
ApplyReplace(d, update_data) ==
  [f \in DOMAIN d |->
     IF f \in DOMAIN update_data THEN update_data[f]
     ELSE IF f = "_id" THEN d[f] ELSE NoDoc[f]]

\* update_one({"_id": id}, {"$set": update_data}): first match only
ApplySet(d, update_data) ==
  [f \in DOMAIN d |-> IF f \in DOMAIN update_data THEN update_data[f] ELSE d[f]]

update_one(coll, id, update_data) ==
  LET hit == { i \in 1 .. Len(coll) : coll[i]._id = id }
      first == CHOOSE i \in hit : \A j \in hit : i <= j
  IN  IF hit = {} THEN coll
      ELSE [coll EXCEPT ![first] = ApplySet(coll[first], update_data)]

\* ------------------------------------------------------------ pydantic
\* a minimum length that is one too small
ValidUserCreateShort(r) ==
  /\ Len(r.password) >= MinPasswordLen - 1
  /\ Len(r.name) <= MaxNameLen
  /\ r.role \in Roles
  /\ r.locale \in Locales

ValidUserCreate(r) ==
  /\ Len(r.password) >= MinPasswordLen
  /\ Len(r.name) <= MaxNameLen
  /\ r.role \in Roles
  /\ r.locale \in Locales

UserInDB(d) ==
  [id |-> d._id, email |-> d.email, name |-> d.name, role |-> d.role,
   locale |-> d.locale, hashed_password |-> d.hashed_password,
   created_at |-> d.created_at, updated_at |-> d.updated_at]

UserPublicFields ==
  {"id", "email", "name", "role", "locale", "created_at", "updated_at"}

UserPublic(d) ==
  [id |-> d._id, email |-> d.email, name |-> d.name, role |-> d.role,
   locale |-> d.locale, created_at |-> d.created_at,
   updated_at |-> d.updated_at]

\* an endpoint declared without a response model
response_model_none(obj) == obj

\* response_model=UserPublic: the returned object is serialised through the
\* response model, which keeps the model's fields and drops the rest
response_model_UserPublic(obj) ==
  [f \in (DOMAIN obj) \cap UserPublicFields |-> obj[f]]

\* ------------------------------------------------- app/auth/jwt.py (spec)
get_password_hash(password, salt) == <<"bcrypt", salt, password>>

verify_password(plain, digest) ==
  /\ Len(digest) = 3
  /\ digest[1] = "bcrypt"
  /\ digest[3] = plain

NoSub == -1

create_access_token(sub, expires_delta, time) ==
  [form |-> "jwt", sig |-> "good", sub |-> sub, exp |-> time + expires_delta]

NoPayload == [ok |-> FALSE, sub |-> NoSub, exp |-> 0]

verify_token(token, time) ==
  IF token.form = "jwt" /\ token.sig = "good" /\ ~(token.exp < time)
  THEN [ok |-> TRUE, sub |-> token.sub, exp |-> token.exp]
  ELSE NoPayload

\* ------------------------------------------------------------- responses
BearerHeader == {<<"WWW-Authenticate", "Bearer">>}

HTTPException(status_code, detail, headers) ==
  [status |-> status_code, headers |-> headers, body |-> [detail |-> detail]]

JSONResponse(status_code, body) ==
  [status |-> status_code, headers |-> {}, body |-> body]

NoResp == [status |-> 0, headers |-> {}, body |-> [detail |-> ""]]

\* ------------------------------------------------------------ credentials
NoHeader == [form |-> "none", sig |-> "", sub |-> NoSub, exp |-> 0]
Malformed == [form |-> "malformed", sig |-> "", sub |-> NoSub, exp |-> 0]
\* validly signed, unexpired tokens that login did not hand out: one without
\* a subject, one whose subject is the id of no stored user
NoSubToken ==
  [form |-> "jwt", sig |-> "good", sub |-> NoSub,
   exp |-> 1000 * access_token_expire_minutes]
OrphanToken ==
  [form |-> "jwt", sig |-> "good", sub |-> 1000 + MaxUsers,
   exp |-> 1000 * access_token_expire_minutes]
Tampered(t) == [t EXCEPT !.sig = "bad"]

\* what a client can put in the Authorization header
Credentials ==
  {NoHeader, Malformed, NoSubToken, OrphanToken}
    \cup issued \cup { Tampered(t) : t \in issued }

\* security = HTTPBearer(): without a bearer credential the request is
\* rejected before the dependency body runs
security(cred) ==
  IF cred.form = "none"
  THEN [ok |-> FALSE, resp |-> HTTPException(403, "Not authenticated", {})]
  ELSE [ok |-> TRUE, resp |-> NoResp]

\* ------------------------------------------------------ identity resolver
Rejected(exc, cause) ==
  [ok |-> FALSE, user |-> UserInDB(NoDoc), resp |-> exc, cause |-> cause]

\* a resolver that does not check that the lookup found a user
get_current_user_unchecked(cred, coll, time) ==
  LET payload == verify_token(cred, time)
      user_data == find_one_by_id(coll, payload.sub)
  IN  IF ~security(cred).ok
        THEN Rejected(security(cred).resp, "no_header")
      ELSE IF ~payload.ok
        THEN Rejected(HTTPException(401, "Could not validate credentials",
                                    BearerHeader), "bad_token")
      ELSE IF payload.sub = NoSub
        THEN Rejected(HTTPException(401, "Could not validate credentials",
                                    BearerHeader), "no_sub")
      ELSE [ok |-> TRUE, user |-> UserInDB(user_data), resp |-> NoResp,
            cause |-> "ok"]

get_current_user(cred, coll, time) ==
  LET payload == verify_token(cred, time)
      user_data == find_one_by_id(coll, payload.sub)
  IN  IF ~security(cred).ok
        THEN Rejected(security(cred).resp, "no_header")
      ELSE IF ~payload.ok
        THEN Rejected(HTTPException(401, "Could not validate credentials",
                                    BearerHeader), "bad_token")
      ELSE IF payload.sub = NoSub
        THEN Rejected(HTTPException(401, "Could not validate credentials",
                                    BearerHeader), "no_sub")
      ELSE IF user_data = NoDoc
        THEN Rejected(HTTPException(401, "User not found", BearerHeader),
                      "user_missing")
      ELSE [ok |-> TRUE, user |-> UserInDB(user_data), resp |-> NoResp,
            cause |-> "ok"]

\* a role check that joins its two tests with "or"
role_checker_or(current_user, required_role) ==
  IF current_user.role # required_role \/ current_user.role # "super_admin"
  THEN [ok |-> FALSE,
        resp |-> HTTPException(403, "Not enough permissions", {})]
  ELSE [ok |-> TRUE, resp |-> NoResp]

\* require_role(required_role) -> role_checker(current_user)
role_checker(current_user, required_role) ==
  IF current_user.role # required_role /\ current_user.role # "super_admin"
  THEN [ok |-> FALSE,
        resp |-> HTTPException(403, "Not enough permissions", {})]
  ELSE [ok |-> TRUE, resp |-> NoResp]

\* ------------------------------------------------------------------- state
NoTrace ==
  [op |-> "none", cause |-> "none", cred |-> NoHeader, uid |-> 0,
   email |-> "", required |-> "", roleChecked |-> FALSE]

Trace(op, cause, cred, uid, email) ==
  [op |-> op, cause |-> cause, cred |-> cred, uid |-> uid, email |-> email,
   required |-> "", roleChecked |-> FALSE]

Init ==
  /\ users = <<>>
  /\ nextId = 1
  /\ now = 0
  /\ ticks = 0
  /\ issued = {}
  /\ pc = [p \in Procs |-> "idle"]
  /\ loc = [p \in Procs |-> NoLoc]
  /\ resp = NoResp
  /\ trace = NoTrace

Tick(d) ==
  /\ ticks < MaxTicks
  /\ now' = now + d
  /\ ticks' = ticks + 1
  /\ UNCHANGED <<users, nextId, issued, pc, loc, resp, trace>>

\* ---------------------------------------------------- POST /auth/register
user_doc(r, id, salt, time) ==
  [_id |-> id, email |-> r.email, name |-> r.name, role |-> r.role,
   locale |-> r.locale,
   hashed_password |-> get_password_hash(r.password, salt),
   created_at |-> time, updated_at |-> time]

\* a lookup that ignores the email it is given
existing_user_by_name(coll, user_data) ==
  LET m == SelectSeq(coll, LAMBDA d : d.name = user_data.name)
  IN  IF m = <<>> THEN NoDoc ELSE Head(m)

\* existing_user = find_one({"email": user_data.email})
existing_user(coll, user_data) == find_one_by_email(coll, user_data.email)

\* body validation, find_one by email, and the document built before the
\* insert is awaited
RegisterLookup(p, r, salt) ==
  /\ pc[p] = "idle"
  /\ IF ~ValidUserCreate(r)
       THEN /\ resp' = JSONResponse(422, [detail |-> "validation error"])
            /\ trace' = Trace("register", "validation", NoHeader, 0, r.email)
            /\ UNCHANGED <<nextId, pc, loc>>
     ELSE IF existing_user(users, r) # NoDoc
       THEN /\ resp' = HTTPException(400, "Email already registered", {})
            /\ trace' = Trace("register", "conflict", NoHeader, 0, r.email)
            /\ UNCHANGED <<nextId, pc, loc>>
     ELSE /\ nextId <= MaxUsers
          /\ nextId' = nextId + 1
          /\ loc' = [loc EXCEPT ![p] =
                       [NoLoc EXCEPT !.doc = user_doc(r, nextId, salt, now)]]
          /\ pc' = [pc EXCEPT ![p] = "reg_insert"]
          /\ UNCHANGED <<resp, trace>>
  /\ UNCHANGED <<users, now, ticks, issued>>

\* insert_one and the 201 response
RegisterInsert(p) ==
  /\ pc[p] = "reg_insert"
  /\ users' = Append(users, loc[p].doc)
  /\ resp' = JSONResponse(201, UserPublic(loc[p].doc))
  /\ trace' = Trace("register", "ok", NoHeader, loc[p].doc._id,
                    loc[p].doc.email)
  /\ pc' = [pc EXCEPT ![p] = "idle"]
  /\ loc' = [loc EXCEPT ![p] = NoLoc]
  /\ UNCHANGED <<nextId, now, ticks, issued>>

\* ------------------------------------------------------- POST /auth/login
\* an unknown email reported as such
LoginUnknownEmail == HTTPException(404, "User not found", {})

LoginNoUser ==
  HTTPException(401, "Incorrect email or password", BearerHeader)

LoginBadPassword ==
  HTTPException(401, "Incorrect email or password", BearerHeader)

\* a token lifetime passed in days
LoginTokenDays(user_data, time) ==
  create_access_token(user_data._id, access_token_expire_minutes * 1440, time)

\* a token bound to the first stored user
LoginTokenFirstUser(user_data, time) ==
  create_access_token(users[1]._id, access_token_expire_minutes, time)

LoginToken(user_data, time) ==
  create_access_token(user_data._id, access_token_expire_minutes, time)

\* the handler's outcome on the collection as it stands
login(username, password, coll, time) ==
  LET user_data == find_one_by_email(coll, username)
      access_token == LoginToken(user_data, time)
  IN  IF user_data = NoDoc
        THEN [cause |-> "no_user", uid |-> 0, tokens |-> {},
              resp |-> LoginNoUser]
      ELSE IF ~verify_password(password, user_data.hashed_password)
        THEN [cause |-> "bad_password", uid |-> 0, tokens |-> {},
              resp |-> LoginBadPassword]
      ELSE [cause |-> "ok", uid |-> user_data._id,
            tokens |-> {access_token},
            resp |-> JSONResponse(200,
                       [access_token |-> access_token,
                        token_type |-> "bearer",
                        user |-> UserPublic(user_data)])]

Login(username, password) ==
  LET r == login(username, password, users, now)
  IN
  /\ r.tokens \subseteq issued \/ Cardinality(issued) < MaxTokens
  /\ issued' = issued \cup r.tokens
  /\ resp' = r.resp
  /\ trace' = Trace("login", r.cause, NoHeader, r.uid, username)
  /\ UNCHANGED <<users, nextId, now, ticks, pc, loc>>

\* ---------------------------------------------------------- GET /auth/me
get_current_user_info(current_user) == current_user

Me(cred) ==
  LET r == get_current_user(cred, users, now)
  IN
  /\ resp' = IF r.ok
             THEN JSONResponse(200,
                    response_model_UserPublic(get_current_user_info(r.user)))
             ELSE r.resp
  /\ trace' = Trace("me", r.cause, cred, r.user.id, r.user.email)
  /\ UNCHANGED <<users, nextId, now, ticks, issued, pc, loc>>

\* ---------------------------------------------------------- PUT /auth/me
PatchFields(user_update) ==
  { f \in {"name", "locale"} : user_update[f] # None }

update_data(user_update, time) ==
  [f \in PatchFields(user_update) \cup {"updated_at"} |->
     IF f = "updated_at" THEN time ELSE user_update[f]]

\* identity resolution, then the handler up to the awaited update_one
UpdateResolve(p, cred, user_update) ==
  LET r == get_current_user(cred, users, now)
  IN
  /\ pc[p] = "idle"
  /\ IF ~r.ok
       THEN /\ resp' = r.resp
            /\ trace' = Trace("update", r.cause, cred, 0, "")
            /\ UNCHANGED <<pc, loc>>
     ELSE IF PatchFields(user_update) = {}
       THEN /\ resp' = JSONResponse(200, response_model_UserPublic(r.user))
            /\ trace' = Trace("update", "empty_patch", cred, r.user.id,
                              r.user.email)
            /\ UNCHANGED <<pc, loc>>
     ELSE /\ loc' = [loc EXCEPT ![p] =
                       [NoLoc EXCEPT !.uid = r.user.id,
                                     !.update_data =
                                        update_data(user_update, now)]]
          /\ pc' = [pc EXCEPT ![p] = "upd_write"]
          /\ UNCHANGED <<resp, trace>>
  /\ UNCHANGED <<users, nextId, now, ticks, issued>>

\* update_one({"_id": current_user.id}, {"$set": update_data})
UpdateWrite(p) ==
  /\ pc[p] = "upd_write"
  /\ users' = update_one(users, loc[p].uid, loc[p].update_data)
  /\ pc' = [pc EXCEPT ![p] = "upd_read"]
  /\ loc' = [loc EXCEPT ![p] = [NoLoc EXCEPT !.uid = loc[p].uid]]
  /\ UNCHANGED <<nextId, now, ticks, issued, resp, trace>>

\* find_one({"_id": current_user.id}) and the 200 response
UpdateReread(p) ==
  LET updated_user == find_one_by_id(users, loc[p].uid)
  IN
  /\ pc[p] = "upd_read"
  /\ resp' = JSONResponse(200, UserPublic(updated_user))
  /\ trace' = Trace("update", "ok", NoHeader, loc[p].uid, updated_user.email)
  /\ pc' = [pc EXCEPT ![p] = "idle"]
  /\ loc' = [loc EXCEPT ![p] = NoLoc]
  /\ UNCHANGED <<users, nextId, now, ticks, issued>>

\* ------------------------------------- an endpoint behind require_role(r)
RoleGated(cred, required_role) ==
  LET r == get_current_user(cred, users, now)
      g == role_checker(r.user, required_role)
  IN
  /\ resp' = IF ~r.ok THEN r.resp
             ELSE IF ~g.ok THEN g.resp
             ELSE JSONResponse(200, [detail |-> "ok"])
  /\ trace' = [Trace("gated",
                     IF ~r.ok THEN r.cause
                     ELSE IF ~g.ok THEN "forbidden" ELSE "ok",
                     cred, r.user.id, r.user.email)
                 EXCEPT !.required = required_role, !.roleChecked = r.ok]
  /\ UNCHANGED <<users, nextId, now, ticks, issued, pc, loc>>

Next ==
  \/ \E d \in TickSteps : Tick(d)
  \/ \E p \in Procs, r \in RegisterRequests, salt \in Salts :
       RegisterLookup(p, r, salt)
  \/ \E p \in Procs : RegisterInsert(p)
  \/ \E u \in LoginEmails, w \in LoginPasswords : Login(u, w)
  \/ \E cred \in Credentials : Me(cred)
  \/ \E p \in Procs, cred \in Credentials, u \in Patches :
       UpdateResolve(p, cred, u)
  \/ \E p \in Procs : UpdateWrite(p)
  \/ \E p \in Procs : UpdateReread(p)
  \/ \E cred \in Credentials, q \in Roles : RoleGated(cred, q)

Spec == Init /\ [][Next]_vars

\* registration traffic only
NextRegister ==
  \/ \E d \in TickSteps : Tick(d)
  \/ \E p \in Procs, r \in RegisterRequests, salt \in Salts :
       RegisterLookup(p, r, salt)
  \/ \E p \in Procs : RegisterInsert(p)

SpecRegister == Init /\ [][NextRegister]_vars

\* concurrent registration, and login
NextLogin ==
  \/ \E d \in TickSteps : Tick(d)
  \/ \E p \in Procs, r \in RegisterRequests : RegisterLookup(p, r, 1)
  \/ \E p \in Procs : RegisterInsert(p)
  \/ \E u \in LoginEmails, w \in LoginPasswords : Login(u, w)

SpecLogin == Init /\ [][NextLogin]_vars

\* one client registering at a time, login, authenticated and role-gated reads
NextAccess ==
  \/ \E d \in TickSteps : Tick(d)
  \/ \E r \in RegisterRequests : RegisterLookup(1, r, 1)
  \/ RegisterInsert(1)
  \/ \E u \in LoginEmails, w \in LoginPasswords : Login(u, w)
  \/ \E cred \in Credentials : Me(cred)
  \/ \E cred \in Credentials, q \in Roles : RoleGated(cred, q)

SpecAccess == Init /\ [][NextAccess]_vars

\* one valid request per email
ProfileRequests ==
  { r \in RegisterRequests : r.name = "Ann" \/ r.role = "super_admin" }

\* one client at a time registering and updating, login, profile reads
NextProfile ==
  \/ Tick(1)
  \/ \E r \in ProfileRequests : RegisterLookup(1, r, 1)
  \/ RegisterInsert(1)
  \/ \E u \in LoginEmails, w \in LoginPasswords : Login(u, w)
  \/ \E cred \in Credentials : Me(cred)
  \/ \E cred \in Credentials, u \in Patches : UpdateResolve(1, cred, u)
  \/ UpdateWrite(1)
  \/ UpdateReread(1)

SpecProfile == Init /\ [][NextProfile]_vars

\* one client registering at a time, login, concurrent profile updates
NextUpdate ==
  \/ Tick(1)
  \/ \E r \in ProfileRequests : RegisterLookup(1, r, 1)
  \/ RegisterInsert(1)
  \/ \E u \in LoginEmails, w \in LoginPasswords : Login(u, w)
  \/ \E p \in Procs, cred \in issued \cup {NoHeader}, u \in Patches :
       UpdateResolve(p, cred, u)
  \/ \E p \in Procs : UpdateWrite(p)
  \/ \E p \in Procs : UpdateReread(p)

SpecUpdate == Init /\ [][NextUpdate]_vars

TypeOK ==
  /\ nextId \in 1 .. MaxUsers + 1
  /\ Len(users) < nextId
  /\ ticks \in 0 .. MaxTicks

\* ================================================================ claims
EmailCount(coll, email) ==
  Cardinality({ i \in 1 .. Len(coll) : coll[i].email = email })

\* C1: a valid register request that finds no stored user with its email
\* goes on to insert, and its insert appends exactly one record with that
\* email and answers 201; a valid register request that finds a stored user
\* with its email answers 400 "Email already registered" and neither inserts
\* nor modifies any record.
C1_RegisterThenConflict ==
  [][ \A p \in Procs :
        /\ \A r \in RegisterRequests, salt \in Salts :
             (RegisterLookup(p, r, salt) /\ ValidUserCreate(r)) =>
               IF EmailCount(users, r.email) = 0
               THEN /\ pc'[p] = "reg_insert"
                    /\ loc'[p].doc.email = r.email
                    /\ users' = users
               ELSE /\ resp' = HTTPException(400, "Email already registered", {})
                    /\ pc'[p] = "idle"
                    /\ users' = users
        /\ RegisterInsert(p) =>
             /\ resp'.status = 201
             /\ resp'.body.email = loc[p].doc.email
             /\ Len(users') = Len(users) + 1
             /\ SubSeq(users', 1, Len(users)) = users
             /\ EmailCount(users', loc[p].doc.email)
                  = EmailCount(users, loc[p].doc.email) + 1
    ]_vars

\* a second registration with a stored email has just been refused, after
\* the first one was inserted
C1_Witness ==
  /\ trace.op = "register"
  /\ trace.cause = "conflict"
  /\ resp.status = 400
  /\ EmailCount(users, trace.email) = 1
  /\ \A p \in Procs : pc[p] = "idle"

\* C2: no two stored user records have the same email, whatever the
\* interleaving of the lookups and inserts of concurrent register requests.
C2_EmailUnique ==
  \A i, j \in 1 .. Len(users) :
    users[i].email = users[j].email => i = j

\* C3: in every store state an unknown-email login and a wrong-password
\* login get the same response (401, same detail, same headers), and a
\* failed login issues no token and leaves the store as it was.
C3_LoginFailuresAlike ==
  [][ \A u \in LoginEmails, w \in LoginPasswords :
        (Login(u, w) /\ login(u, w, users, now).cause # "ok") =>
          /\ resp'.status = 401
          /\ users' = users
          /\ issued' = issued
          /\ \A u2 \in LoginEmails, w2 \in LoginPasswords :
               LET other == login(u2, w2, users, now)
               IN  other.cause \in {"no_user", "bad_password"} =>
                     /\ other.resp = resp'
                     /\ other.tokens = {}
    ]_vars

\* a wrong-password login has just been refused while an unknown email
\* would be refused too
C3_Witness ==
  /\ trace.op = "login"
  /\ trace.cause = "bad_password"
  /\ resp.status = 401
  /\ EmailCount(users, trace.email) > 0
  /\ login("nobody@x.io", "eight888", users, now).cause = "no_user"

Unauthenticated == {"bad_token", "no_sub", "user_missing"}

\* C4: every failure of the identity resolver after a bearer credential was
\* presented (token fails verification, verified token without subject,
\* verified token whose subject has no stored user) gets the same response,
\* status and detail message included.
C4_UnauthenticatedAlike ==
  (trace.op = "me" /\ trace.cause \in Unauthenticated) =>
    \A cred \in Credentials :
      LET r == get_current_user(cred, users, now)
      IN  r.cause \in Unauthenticated =>
            /\ r.resp.status = resp.status
            /\ r.resp.body.detail = resp.body.detail

Stored(id) == find_one_by_id(users, id)

Expired(t, time) == t.exp < time

\* C6: a token issued by login expires access_token_expire_minutes after it
\* was issued; before that time it verifies and a request presenting it is
\* accepted; once the clock has passed that time it no longer verifies,
\* every request presenting it is answered 401, and it never verifies again.
C6_TokenLifetime ==
  [][ /\ \A u \in LoginEmails, w \in LoginPasswords :
           (Login(u, w) /\ login(u, w, users, now).cause = "ok") =>
             /\ resp'.body.access_token.exp = now + access_token_expire_minutes
             /\ resp'.body.access_token \in issued'
             /\ verify_token(resp'.body.access_token, now').ok
      /\ \A t \in issued' :
           /\ now' < t.exp =>
                /\ verify_token(t, now').ok
                /\ get_current_user(t, users', now').ok
           /\ now' > t.exp =>
                /\ ~verify_token(t, now').ok
                /\ get_current_user(t, users', now').resp.status = 401
      /\ \A t \in issued :
           ~verify_token(t, now).ok => ~verify_token(t, now').ok
      /\ \A t \in issued :
           (Me(t) \/ \E q \in Roles : RoleGated(t, q)) =>
             /\ now < t.exp => resp'.status # 401
             /\ now > t.exp => resp'.status = 401
    ]_vars

\* a request presenting an expired login token has just been answered 401
C6_Witness ==
  /\ trace.op = "me"
  /\ trace.cred \in issued
  /\ trace.cred.exp < now
  /\ trace.cause = "bad_token"
  /\ resp.status = 401

Permitted(role, required_role) ==
  role = required_role \/ role = "super_admin"

\* C7: the role check lets a resolved user through iff the user's role is
\* the required role or super_admin, and answers 403 otherwise.
C7_RequireRole ==
  /\ \A i \in 1 .. Len(users), q \in Roles :
       LET g == role_checker(UserInDB(users[i]), q)
       IN  /\ g.ok <=> Permitted(users[i].role, q)
           /\ ~g.ok => g.resp.status = 403
  /\ (trace.op = "gated" /\ trace.roleChecked) =>
       /\ resp.status = 200 <=> Permitted(Stored(trace.uid).role, trace.required)
       /\ resp.status # 200 => resp.status = 403

\* a customer has just been refused on an endpoint that requires market_admin
C7_Witness ==
  /\ trace.op = "gated"
  /\ trace.roleChecked
  /\ Stored(trace.uid).role = "customer"
  /\ trace.required = "market_admin"
  /\ resp.status = 403

Forbidden == HTTPException(403, "Not enough permissions", {})

C5_SubjectBinding ==
  /\ (trace.op = "login" /\ trace.cause = "ok") =>
       /\ resp.body.access_token.sub = trace.uid
       /\ resp.body.user.id = trace.uid
       /\ Stored(trace.uid).email = trace.email
  /\ \A t \in issued :
       /\ Stored(t.sub) # NoDoc
       /\ ~Expired(t, now) =>
            LET r == get_current_user(t, users, now)
            IN  /\ r.ok
                /\ r.user.id = t.sub
                /\ response_model_UserPublic(get_current_user_info(r.user))
                     = UserPublic(Stored(t.sub))
  /\ (trace.op = "me" /\ trace.cause = "ok" /\ trace.cred \in issued) =>
       /\ resp.status = 200
       /\ resp.body.id = trace.cred.sub
       /\ resp.body.email = Stored(trace.cred.sub).email

\* GET /auth/me with the login token of the second registered user has just
\* returned that user, after a profile update
C5_Witness ==
  /\ trace.op = "me"
  /\ trace.cause = "ok"
  /\ trace.cred \in issued
  /\ Len(users) = 2
  /\ resp.body.id = users[2]._id
  /\ resp.body.email = users[2].email
  /\ resp.body.name = "Zed"

PasswordFields == {"password", "hashed_password"}

C10_UpdateFrame ==
  [][ \A p \in Procs :
        /\ (pc[p] = "idle"
              /\ (pc'[p] = "upd_write"
                    \/ (trace' # trace /\ trace'.op = "update"))) =>
             \A cred \in Credentials, u \in Patches :
               (UpdateResolve(p, cred, u)
                  /\ get_current_user(cred, users, now).ok) =>
                 /\ users' = users
                 /\ IF u.name = None /\ u.locale = None
                    THEN /\ pc'[p] = "idle"
                         /\ resp'.status = 200
                         /\ resp'.body = UserPublic(Stored(cred.sub))
                    ELSE /\ pc'[p] = "upd_write"
                         /\ loc'[p].uid = cred.sub
                         /\ DOMAIN loc'[p].update_data
                              = {f \in {"name", "locale"} : u[f] # None}
                                  \cup {"updated_at"}
                         /\ \A f \in {"name", "locale"} :
                              u[f] # None => loc'[p].update_data[f] = u[f]
                         /\ loc'[p].update_data.updated_at = now
        /\ (pc[p] = "upd_write" /\ pc'[p] = "upd_read") =>
             LET id == loc[p].uid
                 ud == loc[p].update_data
             IN  /\ Len(users') = Len(users)
                 /\ \A i \in 1 .. Len(users) :
                      IF users[i]._id # id
                      THEN users'[i] = users[i]
                      ELSE /\ users'[i]._id = users[i]._id
                           /\ users'[i].email = users[i].email
                           /\ users'[i].role = users[i].role
                           /\ users'[i].hashed_password
                                = users[i].hashed_password
                           /\ users'[i].created_at = users[i].created_at
                           /\ users'[i].name =
                                IF "name" \in DOMAIN ud THEN ud.name
                                ELSE users[i].name
                           /\ users'[i].locale =
                                IF "locale" \in DOMAIN ud THEN ud.locale
                                ELSE users[i].locale
                           /\ users'[i].updated_at = ud.updated_at
        /\ (pc[p] = "upd_read" /\ pc'[p] = "idle") =>
             /\ users' = users
             /\ resp'.status = 200
             /\ resp'.body = UserPublic(Stored(loc[p].uid))
    ]_vars

\* a name-only update has just returned; the caller's record has the new
\* name and a later updated_at, and the other user's record is untouched
C10_Witness ==
  /\ trace.op = "update"
  /\ trace.cause = "ok"
  /\ Len(users) = 2
  /\ Stored(trace.uid).name = "Zed"
  /\ Stored(trace.uid).locale = "en"
  /\ Stored(trace.uid).updated_at > Stored(trace.uid).created_at
  /\ resp.body = UserPublic(Stored(trace.uid))
  /\ \A i \in 1 .. Len(users) :
       users[i]._id # trace.uid => users[i].updated_at = users[i].created_at

\* C11: a register request whose password has 7 characters or fewer is
\* answered 422 before any lookup or insert, whether or not its email is
\* stored, and leaves the store as it was; a request whose password has
\* exactly 8 characters, with otherwise valid fields and an unused email,
\* goes on to its insert and is answered 201.
C11_PasswordLengthBoundary ==
  [][ \A p \in Procs :
        /\ \A r \in RegisterRequests, salt \in Salts :
             RegisterLookup(p, r, salt) =>
               /\ Len(r.password) <= 7 =>
                    /\ resp'.status = 422
                    /\ users' = users
                    /\ nextId' = nextId
                    /\ pc'[p] = "idle"
                    /\ loc' = loc
               /\ (Len(r.password) = 8 /\ EmailCount(users, r.email) = 0) =>
                    /\ pc'[p] = "reg_insert"
                    /\ loc'[p].doc.email = r.email
                    /\ loc'[p].doc.hashed_password
                         = get_password_hash(r.password, salt)
                    /\ resp' = resp
        /\ (RegisterInsert(p) /\ Len(loc[p].doc.hashed_password[3]) = 8) =>
             /\ resp'.status = 201
             /\ users' = Append(users, loc[p].doc)
    ]_vars

\* a 7-character password has just been refused with 422 although its email
\* is stored, for a user who registered with an 8-character password
C11_Witness ==
  /\ trace.op = "register"
  /\ trace.cause = "validation"
  /\ resp.status = 422
  /\ trace.email = "b@x.io"
  /\ \E i \in 1 .. Len(users) :
       /\ users[i].email = "a@x.io"
       /\ Len(users[i].hashed_password[3]) = 8
  /\ EmailCount(users, "b@x.io") = 1

====
